---------------------------- MODULE Spec2Model ----------------------------
(***************************************************************************)
(* Course-analysis dashboard (src/appv3.py, and its earlier variant        *)
(* src/app.py, which is the same script without the department filter and  *)
(* the department chart).                                                  *)
(*                                                                         *)
(* The script is a Streamlit page: every user interaction re-runs the      *)
(* whole script top to bottom.  One run = cached load of the spreadsheets, *)
(* read of the widgets, filter pipeline, de-duplication, grouped counts.   *)
(*                                                                         *)
(* Strings are modelled as tuples of one-character strings, so that        *)
(* endswith, re.search, split, strip, `in` and str.contains are computed   *)
(* character by character.  College and department names are modelled by   *)
(* positive integers whose order is the names' sort order; NaN is the      *)
(* missing cell pandas produces for an empty spreadsheet cell.             *)
(***************************************************************************)
EXTENDS Integers, Sequences, FiniteSets, TLC

VARIABLES
    \* --- the working directory and the cached loader -------------------
    listdir,            \* os.listdir('.'): sequence of files, in listing order
    files,              \* load_and_combine_data's local `files` at its last execution
    cache,              \* st.cache_data's memo: <<>> or <<return value>>
    n_reads,            \* number of pd.read_excel calls made so far
    warnings,           \* st.warning messages shown by the last run (file names)
    up_to_date,         \* history: no file was added or removed since the script last ran
    \* --- what the script unpacked from load_and_combine_data() ---------
    nodata,             \* df is None
    df, tags_list, college_list, dept_list, year_list,
    \* --- sidebar widgets -----------------------------------------------
    selected_years, selected_terms, selected_colleges, selected_tags,
    selected_depts, search_keyword,
    \* --- results of the last run ---------------------------------------
    available_depts,    \* options of the department multiselect
    error,              \* "" or the exception caught by the top-level except
    f_df, unique_courses_df, total_unique,
    stats_trend, stats_college, stats_dept,
    pc                  \* how far the script has run: "start", "filtered", "done"

loaderVars  == <<listdir, files, cache, n_reads, warnings, up_to_date>>
catalogVars == <<nodata, df, tags_list, college_list, dept_list, year_list>>
widgetVars  == <<selected_years, selected_terms, selected_colleges,
                 selected_tags, selected_depts, search_keyword>>
outVars     == <<available_depts, error, f_df, unique_courses_df, total_unique,
                 stats_trend, stats_college, stats_dept>>
vars        == <<loaderVars, catalogVars, widgetVars, outVars, pc>>

-----------------------------------------------------------------------------
(* Bounds of the model *)

\* longest file-name stem enumerated for the file-name scan
MaxStem == 9
\* most files in the working directory
MaxFiles == 2
\* most rows of a catalog the dashboard is run on
MaxRows == 2
\* most rows of a filtered frame handed to the aggregation stage
MaxFiltered == 3

-----------------------------------------------------------------------------
(* Strings *)

\* the missing value of a text cell (never equal to a tuple of characters)
NaNStr == <<"NaN">>
\* the missing value of a college / department cell
NaN == 0

Digits == {"0", "1", "2", "3", "4", "5", "6", "7", "8", "9"}
\* characters str.strip() removes
Whitespace == {" ", "\t", "\n", "\r", "\f"}

\* code point order of the characters the model uses (for sorted())
Ord(c) ==
    CASE c = "\t" -> 9 [] c = "\n" -> 10 [] c = " " -> 32 [] c = "(" -> 40
      [] c = "-" -> 45 [] c = "." -> 46
      [] c = "0" -> 48 [] c = "1" -> 49 [] c = "2" -> 50 [] c = "3" -> 51
      [] c = "4" -> 52 [] c = "5" -> 53 [] c = "6" -> 54 [] c = "7" -> 55
      [] c = "8" -> 56 [] c = "9" -> 57
      [] c = "A" -> 65 [] c = "B" -> 66
      [] c = "a" -> 97 [] c = "b" -> 98 [] c = "c" -> 99 [] c = "l" -> 108
      [] c = "s" -> 115 [] c = "v" -> 118 [] c = "x" -> 120
      [] OTHER -> 127

\* s < t, the order Python's sorted() uses on str
RECURSIVE StrLess(_, _)
StrLess(s, t) ==
    IF t = <<>> THEN FALSE
    ELSE IF s = <<>> THEN TRUE
    ELSE IF Head(s) = Head(t) THEN StrLess(Tail(s), Tail(t))
    ELSE Ord(Head(s)) < Ord(Head(t))

\* str.endswith
EndsWith(s, suffix) ==
    /\ Len(s) >= Len(suffix)
    /\ SubSeq(s, Len(s) - Len(suffix) + 1, Len(s)) = suffix

\* `needle in hay` on str
Contains(hay, needle) ==
    \E i \in 1..(Len(hay) - Len(needle) + 1) :
        SubSeq(hay, i, i + Len(needle) - 1) = needle

\* str.split(sep) for a one-character separator
RECURSIVE SplitFrom(_, _, _)
SplitFrom(s, sep, part) ==
    IF s = <<>> THEN <<part>>
    ELSE IF Head(s) = sep THEN <<part>> \o SplitFrom(Tail(s), sep, <<>>)
    ELSE SplitFrom(Tail(s), sep, Append(part, Head(s)))

Split(s, sep) == SplitFrom(s, sep, <<>>)

\* str.strip()
RECURSIVE LStrip(_)
LStrip(s) ==
    IF s # <<>> /\ Head(s) \in Whitespace THEN LStrip(Tail(s)) ELSE s

RECURSIVE RStrip(_)
RStrip(s) ==
    IF s # <<>> /\ s[Len(s)] \in Whitespace THEN RStrip(SubSeq(s, 1, Len(s) - 1)) ELSE s

Strip(s) == RStrip(LStrip(s))

\* the elements of a sequence
Range(s) == {s[i] : i \in 1..Len(s)}

\* sorted(S) for a finite set S of str
RECURSIVE SortedStrs(_)
SortedStrs(S) ==
    IF S = {} THEN <<>>
    ELSE LET m == CHOOSE x \in S : \A y \in S \ {x} : StrLess(x, y)
         IN  <<m>> \o SortedStrs(S \ {m})

\* sorted(S) for a finite set S of college / department names
RECURSIVE SortedIds(_)
SortedIds(S) ==
    IF S = {} THEN <<>>
    ELSE LET m == CHOOSE x \in S : \A y \in S \ {x} : x < y
         IN  <<m>> \o SortedIds(S \ {m})

-----------------------------------------------------------------------------
(* Catalog loader: load_and_combine_data *)

DotXlsx == <<".", "x", "l", "s", "x">>

\* re.search(r'(\d{3})-(\d)', f): the leftmost position where the pattern matches
MatchesAt(f, i) ==
    /\ i + 4 <= Len(f)
    /\ f[i] \in Digits /\ f[i + 1] \in Digits /\ f[i + 2] \in Digits
    /\ f[i + 3] = "-"
    /\ f[i + 4] \in Digits

RECURSIVE SearchFrom(_, _)
SearchFrom(f, i) ==
    IF i + 4 > Len(f) THEN [found |-> FALSE, year |-> <<>>, term |-> <<>>]
    ELSE IF MatchesAt(f, i)
         THEN [found |-> TRUE, year |-> SubSeq(f, i, i + 2), term |-> <<f[i + 4]>>]
         ELSE SearchFrom(f, i + 1)

\* mutant: re.match, which tries the pattern at the start of the name only
ReSearch_match(f) ==
    IF MatchesAt(f, 1)
    THEN [found |-> TRUE, year |-> SubSeq(f, 1, 3), term |-> <<f[5]>>]
    ELSE [found |-> FALSE, year |-> <<>>, term |-> <<>>]

ReSearch(f) == SearchFrom(f, 1)

\* temp_df['學年度'] = year; temp_df['學期'] = term
StampRow(r, year, term) ==
    [year |-> year, term |-> term, college |-> r.college, dept |-> r.dept,
     code |-> r.code, name |-> r.name, tags |-> r.tags]

Stamp(table, year, term) ==
    [i \in 1..Len(table) |-> StampRow(table[i], year, term)]

\* mutant: the loop without its try/except, so the first unreadable file ends the load
RECURSIVE LoadLoop_raise(_, _, _)
LoadLoop_raise(fs, i, acc) ==
    IF i > Len(fs) THEN acc
    ELSE LET f == fs[i]
             match == ReSearch(f.name)
         IN  IF ~match.found THEN LoadLoop_raise(fs, i + 1, acc)
             ELSE IF f.ok
                  THEN LoadLoop_raise(fs, i + 1,
                         [acc EXCEPT !.all_dfs = Append(@, Stamp(f.table, match.year, match.term)),
                                     !.reads = @ + 1])
                  ELSE [acc EXCEPT !.all_dfs = <<>>,
                                   !.warnings = Append(@, f.name),
                                   !.reads = @ + 1]

\* the for loop over `files`: state after the files from position i on are handled
RECURSIVE LoadLoop(_, _, _)
LoadLoop(fs, i, acc) ==
    IF i > Len(fs) THEN acc
    ELSE LET f == fs[i]
             match == ReSearch(f.name)
         IN  IF ~match.found THEN LoadLoop(fs, i + 1, acc)
             ELSE IF f.ok
                  THEN LoadLoop(fs, i + 1,
                         [acc EXCEPT !.all_dfs = Append(@, Stamp(f.table, match.year, match.term)),
                                     !.reads = @ + 1])
                  ELSE LoadLoop(fs, i + 1,
                         [acc EXCEPT !.warnings = Append(@, f.name),
                                     !.reads = @ + 1])

\* pd.concat(all_dfs, ignore_index=True)
RECURSIVE Concat(_)
Concat(dfs) == IF dfs = <<>> THEN <<>> ELSE Head(dfs) \o Concat(Tail(dfs))

\* df['課程標籤'].fillna('').astype(str)
FillTags(frame) ==
    [i \in 1..Len(frame) |->
        [frame[i] EXCEPT !.tags = IF @ = NaNStr THEN <<>> ELSE @]]

\* str.split('\n').explode().str.strip(), then the non-empty unique values, sorted
RowTags(tags) == {Strip(p) : p \in Range(Split(tags, "\n"))}

UniqueTags(frame) ==
    LET all_tags == UNION {RowTags(frame[i].tags) : i \in 1..Len(frame)}
    IN  SortedStrs({t \in all_tags : t # <<>> /\ Strip(t) # <<>>})

UniqueColleges(frame) ==
    SortedIds({frame[i].college : i \in 1..Len(frame)} \ {NaN})

UniqueDepts(frame) ==
    SortedIds({frame[i].dept : i \in 1..Len(frame)} \ {NaN})

UniqueYears(frame) ==
    SortedStrs({frame[i].year : i \in 1..Len(frame)})

NoData(fs, ws, reads) ==
    [none |-> TRUE, df |-> <<>>, unique_tags |-> <<>>, unique_colleges |-> <<>>,
     unique_depts |-> <<>>, unique_years |-> <<>>,
     files |-> fs, warnings |-> ws, reads |-> reads]

\* what the preprocessing and the return statement build from the concatenated frame
Combined(frame, fs, ws, reads) ==
    LET filled == FillTags(frame)
    IN  [none |-> FALSE, df |-> filled,
         unique_tags |-> UniqueTags(filled),
         unique_colleges |-> UniqueColleges(filled),
         unique_depts |-> UniqueDepts(filled),
         unique_years |-> UniqueYears(filled),
         files |-> fs, warnings |-> ws, reads |-> reads]

\* files = [f for f in os.listdir('.') if f.endswith('.xlsx')]
XlsxFiles(dir) == SelectSeq(dir, LAMBDA f : EndsWith(f.name, DotXlsx))

\* one execution of the function body on the directory listing `dir`
load_and_combine_data(dir) ==
    LET fs == XlsxFiles(dir)
    IN  IF fs = <<>> THEN NoData(fs, <<>>, 0)
        ELSE LET acc == LoadLoop(fs, 1, [all_dfs |-> <<>>, warnings |-> <<>>, reads |-> 0])
             IN  IF acc.all_dfs = <<>> THEN NoData(fs, acc.warnings, acc.reads)
                 ELSE Combined(Concat(acc.all_dfs), fs, acc.warnings, acc.reads)

-----------------------------------------------------------------------------
(* Filter pipeline (appv3.py lines 82-93; app.py lines 95-111) *)

\* f_df[(f_df['學年度'].isin(selected_years or [])) & (f_df['學期'].isin(selected_terms or []))]
YearTermStep(frame, years, terms) ==
    SelectSeq(frame, LAMBDA r : r.year \in years /\ r.term \in terms)

\* mutant: the college filter without its `if selected_colleges:` guard
CollegeStep_unguarded(frame, colleges) ==
    SelectSeq(frame, LAMBDA r : r.college \in colleges)

\* if selected_colleges: f_df = f_df[f_df['主開學院名稱_中文'].isin(selected_colleges)]
CollegeStep(frame, colleges) ==
    IF colleges = {} THEN frame
    ELSE SelectSeq(frame, LAMBDA r : r.college \in colleges)

\* if selected_depts: f_df = f_df[f_df['主開系所名稱_中文'].isin(selected_depts)]
DeptStep(frame, depts) ==
    IF depts = {} THEN frame
    ELSE SelectSeq(frame, LAMBDA r : r.dept \in depts)

\* lambda x: any(tag in x for tag in selected_tags), x the row's whole tag cell
TagMask(x, tags) == \E tag \in tags : Contains(x, tag)

\* if selected_tags: f_df = f_df[mask]
TagStep(frame, tags) ==
    IF tags = {} THEN frame
    ELSE SelectSeq(frame, LAMBDA r : TagMask(r.tags, tags))

\* re.IGNORECASE on the letters the model uses
Lower(c) == CASE c = "A" -> "a" [] c = "B" -> "b" [] OTHER -> c

\* re.compile(pat): over the model's keyword characters (letters, ".", "("), a
\* pattern fails to compile exactly when it holds an unclosed "("
RegexCompiles(pat) == \A i \in 1..Len(pat) : pat[i] # "("

\* one pattern character against one subject character, case-insensitively:
\* "." is the wildcard (any character but a newline), a letter is itself
RegexCharMatch(p, c) ==
    IF p = "." THEN c # "\n" ELSE Lower(p) = Lower(c)

\* re.search of a compiled pattern made of letters and "."
RegexSearch(pat, subject) ==
    \E i \in 1..(Len(subject) - Len(pat) + 1) :
        \A j \in 1..Len(pat) : RegexCharMatch(pat[j], subject[i + j - 1])

\* Series.str.contains(search_keyword, na=False, case=False), regex=True by default
StrContains(name, pat) ==
    IF name = NaNStr THEN FALSE ELSE RegexSearch(pat, name)

\* the dtype of the name column is object: pandas reads a column whose cells are
\* all empty as float64, and the .str accessor raises AttributeError on it
NameColumnIsText(catalog) ==
    catalog = <<>> \/ \E i \in 1..Len(catalog) : catalog[i].name # NaNStr

\* if search_keyword: f_df = f_df[f_df['主開科目名稱'].str.contains(...)]
\* (.str is taken, then the pattern is compiled, before any row is looked at)
KeywordStep(frame, keyword, is_text) ==
    IF keyword = <<>> THEN [error |-> "", rows |-> frame]
    ELSE IF ~is_text THEN [error |-> "AttributeError", rows |-> <<>>]
    ELSE IF ~RegexCompiles(keyword) THEN [error |-> "re.error", rows |-> <<>>]
    ELSE [error |-> "", rows |-> SelectSeq(frame, LAMBDA r : StrContains(r.name, keyword))]

Criteria(years, terms, colleges, depts, tags, keyword) ==
    [years |-> years, terms |-> terms, colleges |-> colleges, depts |-> depts,
     tags |-> tags, keyword |-> keyword]

\* the frame that reaches the tag step
BeforeTagStep(frame, c) ==
    DeptStep(CollegeStep(YearTermStep(frame, c.years, c.terms), c.colleges), c.depts)

\* the frame that reaches the keyword step
BeforeKeywordStep(frame, c) == TagStep(BeforeTagStep(frame, c), c.tags)

\* the whole pipeline: [error, rows]
Filter(frame, c) ==
    KeywordStep(BeforeKeywordStep(frame, c), c.keyword, NameColumnIsText(frame))

-----------------------------------------------------------------------------
(* De-duplication and grouped counts (appv3.py lines 96-137) *)

Key(r) == <<r.year, r.term, r.code>>

\* f_df.drop_duplicates(subset=['學年度', '學期', '主開課程碼']), keep='first'
RECURSIVE DropFrom(_, _)
DropFrom(frame, seen) ==
    IF frame = <<>> THEN <<>>
    ELSE IF Key(Head(frame)) \in seen THEN DropFrom(Tail(frame), seen)
    ELSE <<Head(frame)>> \o DropFrom(Tail(frame), seen \cup {Key(Head(frame))})

Reverse(frame) == [i \in 1..Len(frame) |-> frame[Len(frame) + 1 - i]]

\* mutant: drop_duplicates(..., keep='last')
DropDuplicates_last(frame) == Reverse(DropFrom(Reverse(frame), {}))

DropDuplicates(frame) == DropFrom(frame, {})

PairLess(a, b) == StrLess(a[1], b[1]) \/ (a[1] = b[1] /\ StrLess(a[2], b[2]))

RECURSIVE SortedPairs(_)
SortedPairs(S) ==
    IF S = {} THEN <<>>
    ELSE LET m == CHOOSE x \in S : \A y \in S \ {x} : PairLess(x, y)
         IN  <<m>> \o SortedPairs(S \ {m})

\* groupby(['學年度', '學期']).size().reset_index(name='課程數'), plus the 學期別 label
StatsTrend(frame) ==
    LET keys == SortedPairs({<<frame[i].year, frame[i].term>> : i \in 1..Len(frame)})
    IN  [k \in 1..Len(keys) |->
            [year |-> keys[k][1], term |-> keys[k][2],
             count |-> Cardinality({i \in 1..Len(frame) : <<frame[i].year, frame[i].term>> = keys[k]}),
             label |-> keys[k][1] \o <<"-">> \o keys[k][2]]]

\* groupby('主開學院名稱_中文').size(): groupby drops the rows whose key is NaN
\* (dropna=True is pandas' default) and orders the groups by key
StatsCollege(frame) ==
    LET keys == SortedIds({frame[i].college : i \in 1..Len(frame)} \ {NaN})
    IN  [k \in 1..Len(keys) |->
            [key |-> keys[k], count |-> Cardinality({i \in 1..Len(frame) : frame[i].college = keys[k]})]]

\* groupby('主開系所名稱_中文').size()
GroupByDept(frame) ==
    LET keys == SortedIds({frame[i].dept : i \in 1..Len(frame)} \ {NaN})
    IN  [k \in 1..Len(keys) |->
            [key |-> keys[k], count |-> Cardinality({i \in 1..Len(frame) : frame[i].dept = keys[k]})]]

\* .head(15)
TopN == 15

\* sort_values('課程數', ascending=False): largest count first, equal counts in
\* the order they had
RECURSIVE SortDesc(_)
SortDesc(groups) ==
    IF groups = <<>> THEN <<>>
    ELSE LET i == CHOOSE i \in 1..Len(groups) :
                    /\ \A j \in 1..Len(groups) : groups[j].count <= groups[i].count
                    /\ \A j \in 1..(i - 1) : groups[j].count < groups[i].count
         IN  <<groups[i]>> \o SortDesc(SubSeq(groups, 1, i - 1) \o SubSeq(groups, i + 1, Len(groups)))

StatsDept(frame) ==
    LET sorted == SortDesc(GroupByDept(frame))
    IN  SubSeq(sorted, 1, IF Len(sorted) < TopN THEN Len(sorted) ELSE TopN)

\* lines 96-137: what the script computes from the filtered frame
Aggregate(frame) ==
    LET u == DropDuplicates(frame)
    IN  [unique_courses_df |-> u,
         total_unique |-> Len(u),
         \* if not unique_courses_df.empty: ... (the groupbys of an empty frame are empty)
         stats_trend |-> IF u = <<>> THEN <<>> ELSE StatsTrend(u),
         stats_college |-> IF u = <<>> THEN <<>> ELSE StatsCollege(u),
         stats_dept |-> IF u = <<>> THEN <<>> ELSE StatsDept(u)]

-----------------------------------------------------------------------------
(* Department options (appv3.py lines 74-78) *)

\* sorted(df[df[college].isin(selected_colleges)][dept].unique().tolist()):
\* unique() keeps NaN, and sorted() raises TypeError as soon as it compares the
\* float NaN with a str
AvailableDepts(frame, depts_all, colleges) ==
    IF colleges = {} THEN [error |-> "", options |-> depts_all]
    ELSE LET vals == {frame[i].dept : i \in {j \in 1..Len(frame) : frame[j].college \in colleges}}
         IN  IF NaN \in vals /\ Cardinality(vals) > 1
             THEN [error |-> "TypeError", options |-> <<>>]
             ELSE IF vals = {NaN} THEN [error |-> "", options |-> <<NaN>>]
             ELSE [error |-> "", options |-> SortedIds(vals)]

-----------------------------------------------------------------------------
(* One run of the script (appv3.py lines 51-162) *)

\* default=year_list[-1:]
DefaultYears(years) == IF years = <<>> THEN {} ELSE {years[Len(years)]}

\* options=['1', '2'], default=['1', '2']
TermOptions == {<<"1">>, <<"2">>}

NoOutputs(err) ==
    /\ error' = err
    /\ f_df' = <<>>
    /\ unique_courses_df' = <<>>
    /\ total_unique' = 0
    /\ stats_trend' = <<>>
    /\ stats_college' = <<>>
    /\ stats_dept' = <<>>

\* lines 56-156 for a loaded catalog `cat` and the widget values of this run.
\* A widget the run does not reach is not rendered and loses its value; the
\* department multiselect is a new widget, at its default, when its options change.
Render(cat, years, terms, colleges, tags, depts, keyword) ==
    LET a == AvailableDepts(cat.df, cat.unique_depts, colleges)
    IN  /\ selected_years' = years
        /\ selected_terms' = terms
        /\ selected_colleges' = colleges
        /\ selected_tags' = tags
        /\ available_depts' = a.options
        /\ IF a.error # ""
           THEN /\ selected_depts' = {}
                /\ search_keyword' = <<>>
                /\ NoOutputs(a.error)
           ELSE LET d == IF a.options = available_depts THEN depts ELSE {}
                    r == Filter(cat.df, Criteria(years, terms, colleges, d, tags, keyword))
                IN  /\ selected_depts' = d
                    /\ search_keyword' = keyword
                    /\ IF r.error # ""
                       THEN NoOutputs(r.error)
                       ELSE LET g == Aggregate(r.rows)
                            IN  /\ error' = ""
                                /\ f_df' = r.rows
                                /\ unique_courses_df' = g.unique_courses_df
                                /\ total_unique' = g.total_unique
                                /\ stats_trend' = g.stats_trend
                                /\ stats_college' = g.stats_college
                                /\ stats_dept' = g.stats_dept

\* the whole script: the @st.cache_data call (the memo has one entry, because the
\* function takes no argument, and nothing in the script clears it), then the page
ScriptRun(years, terms, colleges, tags, depts, keyword) ==
    LET miss == cache = <<>>
        result == IF miss THEN load_and_combine_data(listdir) ELSE cache[1]
        first == pc = "start"
    IN  /\ cache' = <<result>>
        /\ n_reads' = n_reads + (IF miss THEN result.reads ELSE 0)
        /\ files' = IF miss THEN result.files ELSE files
        /\ warnings' = result.warnings
        /\ nodata' = result.none
        /\ df' = result.df
        /\ tags_list' = result.unique_tags
        /\ college_list' = result.unique_colleges
        /\ dept_list' = result.unique_depts
        /\ year_list' = result.unique_years
        /\ pc' = "done"
        /\ up_to_date' = TRUE
        /\ UNCHANGED listdir
        /\ IF result.none
           THEN /\ UNCHANGED widgetVars
                /\ available_depts' = <<>>
                /\ NoOutputs("")
           ELSE IF first
                THEN Render(result, DefaultYears(result.unique_years), TermOptions,
                            {}, {}, {}, <<>>)
                ELSE Render(result, years, terms, colleges, tags, depts, keyword)

\* the page is opened or reloaded
Rerun ==
    ScriptRun(selected_years, selected_terms, selected_colleges, selected_tags,
              selected_depts, search_keyword)

Rendered == pc = "done" /\ ~nodata

\* the user changes one sidebar widget, which re-runs the script
SelectYears ==
    /\ Rendered
    /\ \E S \in SUBSET Range(year_list) :
          ScriptRun(S, selected_terms, selected_colleges, selected_tags,
                    selected_depts, search_keyword)

SelectTerms ==
    /\ Rendered
    /\ \E S \in SUBSET TermOptions :
          ScriptRun(selected_years, S, selected_colleges, selected_tags,
                    selected_depts, search_keyword)

SelectColleges ==
    /\ Rendered
    /\ \E S \in SUBSET Range(college_list) :
          ScriptRun(selected_years, selected_terms, S, selected_tags,
                    selected_depts, search_keyword)

SelectTags ==
    /\ Rendered
    /\ \E S \in SUBSET Range(tags_list) :
          ScriptRun(selected_years, selected_terms, selected_colleges, S,
                    selected_depts, search_keyword)

\* the department multiselect and the keyword box come after the statement that
\* computes available_depts: they exist only if the last run got past it
SelectDepts ==
    /\ Rendered /\ error # "TypeError"
    /\ \E S \in SUBSET Range(available_depts) :
          ScriptRun(selected_years, selected_terms, selected_colleges, selected_tags,
                    S, search_keyword)

\* keywords the user types: letters, the regex wildcard, an unclosed group
Keywords == {<<>>, <<"a", "b">>, <<".">>, <<"(">>}

TypeKeyword ==
    /\ Rendered /\ error # "TypeError"
    /\ \E k \in Keywords :
          ScriptRun(selected_years, selected_terms, selected_colleges, selected_tags,
                    selected_depts, k)

-----------------------------------------------------------------------------
(* The working directory *)

N114_1_xlsx == <<"1", "1", "4", "-", "1", ".", "x", "l", "s", "x">>
N113_2_xlsx == <<"1", "1", "3", "-", "2", ".", "x", "l", "s", "x">>
N114_1_csv  == <<"1", "1", "4", "-", "1", ".", "c", "s", "v">>
Nabc_xlsx   == <<"a", "b", "c", ".", "x", "l", "s", "x">>

RawRow(college, dept, code, name, tags) ==
    [college |-> college, dept |-> dept, code |-> code, name |-> name, tags |-> tags]

NameAb == <<"A", "b">>
TagsAB == <<"A", "B">>
Tags_A_ == <<" ", "A", "\n">>

\* sequences over S of length at most n
SeqsUpTo(S, n) == UNION {[1..k -> S] : k \in 0..n}

File(name, ok, table) == [name |-> name, ok |-> ok, table |-> table]

InitRest ==
    /\ files = <<>>
    /\ up_to_date = FALSE
    /\ cache = <<>>
    /\ n_reads = 0
    /\ warnings = <<>>
    /\ nodata = TRUE
    /\ df = <<>>
    /\ tags_list = <<>>
    /\ college_list = <<>>
    /\ dept_list = <<>>
    /\ year_list = <<>>
    /\ selected_years = {}
    /\ selected_terms = {}
    /\ selected_colleges = {}
    /\ selected_tags = {}
    /\ selected_depts = {}
    /\ search_keyword = <<>>
    /\ available_depts = <<>>
    /\ error = ""
    /\ f_df = <<>>
    /\ unique_courses_df = <<>>
    /\ total_unique = 0
    /\ stats_trend = <<>>
    /\ stats_college = <<>>
    /\ stats_dept = <<>>

(* --- Spec: the dashboard on one semester's spreadsheet ------------------ *)

\* rows that differ in the course name and in the tag cell
DashRows ==
    {RawRow(1, 1, 1, n, t) : n \in {NaNStr, NameAb}, t \in {TagsAB, Tags_A_}}

Init ==
    /\ \E table \in SeqsUpTo(DashRows, MaxRows) :
          listdir = <<File(N114_1_xlsx, TRUE, table)>>
    /\ pc = "start"
    /\ InitRest

Next ==
    \/ Rerun
    \/ SelectYears
    \/ SelectTerms
    \/ SelectColleges
    \/ SelectTags
    \/ SelectDepts
    \/ TypeKeyword

Spec == Init /\ [][Next]_vars

(* --- SpecOrg: the dashboard on rows of several colleges and departments -- *)

OrgRows ==
    {RawRow(c, d, 1, NameAb, TagsAB) : c \in {NaN, 1}, d \in {NaN, 1}}

InitOrg ==
    /\ \E table \in SeqsUpTo(OrgRows, MaxRows) :
          listdir = <<File(N114_1_xlsx, TRUE, table)>>
    /\ pc = "start"
    /\ InitRest

SpecOrg == InitOrg /\ [][Next]_vars

(* --- SpecLoad: a directory whose files come and go ----------------------- *)

LoadNames == {N114_1_xlsx, N113_2_xlsx, N114_1_csv, Nabc_xlsx}

LoadTables ==
    {<<RawRow(1, 1, 1, NameAb, TagsAB)>>,
     <<RawRow(1, 1, 1, NameAb, TagsAB), RawRow(NaN, NaN, 2, NaNStr, NaNStr)>>}

\* a readable spreadsheet, or a file pd.read_excel raises on
LoadFiles ==
    {File(n, TRUE, t) : n \in LoadNames, t \in LoadTables}
        \cup {File(n, FALSE, <<>>) : n \in LoadNames}

AddFile ==
    /\ Len(listdir) < MaxFiles
    /\ \E f \in LoadFiles, i \in 0..Len(listdir) :
          /\ \A j \in 1..Len(listdir) : listdir[j].name # f.name
          /\ listdir' = SubSeq(listdir, 1, i) \o <<f>> \o SubSeq(listdir, i + 1, Len(listdir))
    /\ up_to_date' = FALSE
    /\ UNCHANGED <<files, cache, n_reads, warnings, catalogVars, widgetVars, outVars, pc>>

RemoveFile ==
    /\ \E i \in 1..Len(listdir) :
          listdir' = SubSeq(listdir, 1, i - 1) \o SubSeq(listdir, i + 1, Len(listdir))
    /\ up_to_date' = FALSE
    /\ UNCHANGED <<files, cache, n_reads, warnings, catalogVars, widgetVars, outVars, pc>>

InitLoad ==
    /\ listdir = <<>>
    /\ pc = "start"
    /\ InitRest

NextLoad ==
    \/ Rerun
    \/ AddFile
    \/ RemoveFile

SpecLoad == InitLoad /\ [][NextLoad]_vars

(* --- SpecFile: one readable spreadsheet of any name ---------------------- *)

StemChars == {"1", "2", "-"}
Extensions == {DotXlsx, <<".", "x", "l", "s">>, <<".", "c", "s", "v">>}

FileNames == {stem \o ext : stem \in SeqsUpTo(StemChars, MaxStem), ext \in Extensions}

InitFile ==
    /\ \E n \in FileNames :
          listdir = <<File(n, TRUE, <<RawRow(1, 1, 1, NameAb, TagsAB)>>)>>
    /\ pc = "start"
    /\ InitRest

NextFile == Rerun

SpecFile == InitFile /\ [][NextFile]_vars

(* --- SpecAgg: the aggregation stage on any filtered frame ---------------- *)

Year113 == <<"1", "1", "3">>
Year114 == <<"1", "1", "4">>

\* rows of two years, two terms and two course codes, with or without a college
\* and a department
AggRows ==
    {StampRow(RawRow(o, o, k, NameAb, TagsAB), y, t) :
        o \in {NaN, 1}, k \in {1, 2}, y \in {Year113, Year114}, t \in TermOptions}

\* lines 96-137 on the frame the filter left
AggregateStep ==
    /\ pc = "filtered"
    /\ LET g == Aggregate(f_df)
       IN  /\ unique_courses_df' = g.unique_courses_df
           /\ total_unique' = g.total_unique
           /\ stats_trend' = g.stats_trend
           /\ stats_college' = g.stats_college
           /\ stats_dept' = g.stats_dept
    /\ pc' = "done"
    /\ UNCHANGED <<loaderVars, catalogVars, widgetVars, available_depts, error, f_df>>

InitAgg ==
    /\ listdir = <<>> /\ files = <<>> /\ cache = <<>> /\ n_reads = 0 /\ warnings = <<>>
    /\ up_to_date = FALSE
    /\ nodata = FALSE /\ df = <<>> /\ tags_list = <<>> /\ college_list = <<>>
    /\ dept_list = <<>> /\ year_list = <<>>
    /\ selected_years = {} /\ selected_terms = {} /\ selected_colleges = {}
    /\ selected_tags = {} /\ selected_depts = {} /\ search_keyword = <<>>
    /\ available_depts = <<>> /\ error = ""
    /\ f_df \in SeqsUpTo(AggRows, MaxFiltered)
    /\ unique_courses_df = <<>> /\ total_unique = 0
    /\ stats_trend = <<>> /\ stats_college = <<>> /\ stats_dept = <<>>
    /\ pc = "filtered"

NextAgg == AggregateStep

SpecAgg == InitAgg /\ [][NextAgg]_vars

-----------------------------------------------------------------------------
(* Properties of the loader *)

\* position i of name n starts three digits, a hyphen and a digit
PatternAt(n, i) ==
    /\ i >= 1 /\ i + 4 <= Len(n)
    /\ \A k \in {0, 1, 2, 4} : n[i + k] \in Digits
    /\ n[i + 3] = "-"

HasPattern(n) == \E i \in 1..Len(n) : PatternAt(n, i)

\* every row of `frame` carries year y and term t
StampedWith(frame, y, t) == \A k \in 1..Len(frame) : frame[k].year = y /\ frame[k].term = t

\* the only file of a SpecFile directory
TheFile == listdir[1]

\* C6 as stated: a readable file is ingested if and only if its name contains
\* three digits, a hyphen and a digit, whatever its extension.
C6_AnyExtension ==
    (pc = "done" /\ TheFile.ok) =>
        ((~nodata /\ Len(df) = Len(TheFile.table)) <=> HasPattern(TheFile.name))

\* C6 amended: a readable file is read and ingested if and only if its name ends
\* with ".xlsx" and contains three digits, a hyphen and a digit; all its rows enter
\* the catalog stamped with the three digits (year) and the digit (term) of the
\* leftmost such substring; any other file is skipped, unread, with no error and
\* no warning.
C6_XlsxWithPattern ==
    pc = "done" =>
        LET n == TheFile.name
            q == EndsWith(n, DotXlsx) /\ HasPattern(n)
        IN  /\ (n_reads = 1) <=> q
            /\ n_reads \in {0, 1}
            /\ q =>
                  /\ ~nodata
                  /\ Len(df) = Len(TheFile.table)
                  /\ \E i \in 1..Len(n) :
                        /\ PatternAt(n, i)
                        /\ \A j \in 1..(i - 1) : ~PatternAt(n, j)
                        /\ StampedWith(df, SubSeq(n, i, i + 2), <<n[i + 4]>>)
                  /\ warnings = <<>>
            /\ ~q => (nodata /\ warnings = <<>> /\ error = "")

\* a file whose name holds the pattern twice has been ingested under the first
C6_Witness ==
    /\ pc = "done" /\ ~nodata /\ df # <<>>
    /\ \E i, j \in 1..Len(TheFile.name) :
          /\ i < j
          /\ PatternAt(TheFile.name, i) /\ PatternAt(TheFile.name, j)
          /\ SubSeq(TheFile.name, i, i + 2) # SubSeq(TheFile.name, j, j + 2)

\* the files of the last load that qualify and parse / qualify and do not parse
ParsedFiles == SelectSeq(files, LAMBDA f : HasPattern(f.name) /\ f.ok)
FailedFiles == SelectSeq(files, LAMBDA f : HasPattern(f.name) /\ ~f.ok)

\* the rows of the listed files, file after file, each with its year and term
RECURSIVE RowsOf(_)
RowsOf(fs) ==
    IF fs = <<>> THEN <<>>
    ELSE LET n == Head(fs).name
             i == CHOOSE i \in 1..Len(n) : PatternAt(n, i) /\ \A j \in 1..(i - 1) : ~PatternAt(n, j)
         IN  [k \in 1..Len(Head(fs).table) |->
                 [Head(fs).table[k] EXCEPT !.tags = IF @ = NaNStr THEN <<>> ELSE @]
                     @@ [year |-> SubSeq(n, i, i + 2), term |-> <<n[i + 4]>>]]
             \o RowsOf(Tail(fs))

\* C7: a qualifying file that fails to parse is skipped with one warning and every
\* qualifying file that parses is ingested with all its rows; the loader returns
\* "no data" (no frame, empty lists, no exception) exactly when no qualifying file
\* parses.
C7_ParseFailureNonFatal ==
    pc = "done" =>
        /\ warnings = [k \in 1..Len(FailedFiles) |-> FailedFiles[k].name]
        /\ nodata <=> (ParsedFiles = <<>>)
        /\ nodata => /\ df = <<>> /\ tags_list = <<>> /\ college_list = <<>>
                     /\ dept_list = <<>> /\ year_list = <<>> /\ error = ""
        /\ ~nodata => df = RowsOf(ParsedFiles)

\* a load in which one file failed and another was ingested
C7_Witness ==
    /\ pc = "done" /\ warnings # <<>> /\ ~nodata /\ Len(df) >= 2
    /\ \E i, j \in 1..Len(files) : i < j /\ ~files[i].ok /\ files[j].ok

\* C5 as stated: a run is answered from the catalog of the file set as it is at
\* that run (the memo is invalidated when the set of source files changes).
C5_RebuiltAfterChange ==
    (pc = "done" /\ up_to_date) =>
        LET fresh == load_and_combine_data(listdir)
        IN  nodata = fresh.none /\ df = fresh.df
-----------------------------------------------------------------------------
(* Properties of the filter pipeline *)

\* the criteria of the run on display
Current ==
    Criteria(selected_years, selected_terms, selected_colleges, selected_depts,
             selected_tags, search_keyword)

\* the script ran to its end on a loaded catalog
Displayed == pc = "done" /\ ~nodata /\ error = ""

\* the trimmed, non-empty, newline-separated tags of a tag cell
NormalizedTags(cell) == {Strip(p) : p \in Range(Split(cell, "\n"))} \ {<<>>}

\* C1 as stated: with tags selected (and no keyword), the rows kept are exactly
\* the rows reaching the tag step whose normalized tag set meets the selection.
C1_TagSetIntersection ==
    (Displayed /\ selected_tags # {} /\ search_keyword = <<>>) =>
        f_df = SelectSeq(BeforeTagStep(df, Current),
                         LAMBDA r : NormalizedTags(r.tags) \cap selected_tags # {})

LowerStr(s) == [i \in 1..Len(s) |-> Lower(s[i])]

\* C10 as stated: with a keyword typed, whatever its characters, a run keeps
\* exactly the rows reaching the keyword step whose name is present and contains
\* the keyword literally, compared case-insensitively.
C10_LiteralSubstring ==
    (Displayed /\ search_keyword # <<>>) =>
        /\ f_df = SelectSeq(BeforeKeywordStep(df, Current),
                            LAMBDA r : /\ r.name # NaNStr
                                       /\ Contains(LowerStr(r.name), LowerStr(search_keyword)))

\* C4 as stated: with no year or no term selected the filter returns the empty
\* frame, whatever the other criteria (looked at on a catalog that has rows and
\* course names, in a run that got as far as the filter).
C4_EmptyYearsOrTerms ==
    (pc = "done" /\ ~nodata /\ df # <<>> /\ error \notin {"TypeError", "AttributeError"}
        /\ (selected_years = {} \/ selected_terms = {})) =>
        (error = "" /\ f_df = <<>>)

\* a is a subsequence of b
RECURSIVE IsSubseq(_, _)
IsSubseq(a, b) ==
    IF a = <<>> THEN TRUE
    ELSE IF b = <<>> THEN FALSE
    ELSE IF Head(a) = Head(b) THEN IsSubseq(Tail(a), Tail(b))
    ELSE IsSubseq(a, Tail(b))

\* c with one constraint removed
Relaxed(c) ==
    {[c EXCEPT !.keyword = <<>>], [c EXCEPT !.colleges = {}],
     [c EXCEPT !.depts = {}], [c EXCEPT !.tags = {}]}

\* C8: the filtered frame of a run is a subsequence of (so no longer than) the
\* frame the filter returns once the keyword, the colleges, the departments or the
\* tags are cleared.
C8_Monotone ==
    Displayed =>
        \A c2 \in Relaxed(Current) :
            LET r2 == Filter(df, c2)
            IN  /\ r2.error = ""
                /\ IsSubseq(f_df, r2.rows)
                /\ Len(f_df) <= Len(r2.rows)

\* a run with tags selected whose keyword cuts a row that comes back when the
\* keyword is cleared
C8_Witness ==
    /\ Displayed /\ f_df # <<>>
    /\ search_keyword # <<>> /\ selected_tags # {}
    /\ Len(f_df) < Len(Filter(df, [Current EXCEPT !.keyword = <<>>]).rows)

\* C9 as stated: the department options are computed without failure, and with
\* colleges selected they are the departments of the rows of those colleges, and
\* with none selected all departments of the catalog.
C9_DeptOptions ==
    (pc = "done" /\ ~nodata) =>
        /\ error # "TypeError"
        /\ Range(available_depts) \ {NaN} =
              {df[i].dept : i \in {j \in 1..Len(df) :
                    selected_colleges = {} \/ df[j].college \in selected_colleges}} \ {NaN}

-----------------------------------------------------------------------------
(* Properties of the aggregation stage *)

RECURSIVE SumCounts(_)
SumCounts(groups) ==
    IF groups = <<>> THEN 0 ELSE Head(groups).count + SumCounts(Tail(groups))

\* C2 as stated: on every grouping the dashboard uses, the group counts add up to
\* the number of de-duplicated rows.
C2_CountsAddUp ==
    pc = "done" =>
        /\ SumCounts(stats_trend) = Len(unique_courses_df)
        /\ SumCounts(stats_college) = Len(unique_courses_df)
        /\ SumCounts(stats_dept) = Len(unique_courses_df)

\* the positions of f_df that hold the first row of their (year, term, code) key
FirstPositions ==
    {i \in 1..Len(f_df) :
        \A j \in 1..(i - 1) :
            <<f_df[j].year, f_df[j].term, f_df[j].code>>
                # <<f_df[i].year, f_df[i].term, f_df[i].code>>}

\* C3: the de-duplicated frame is the filtered frame restricted to the first row
\* of each (year, term, courseCode) key, in input order: no key twice, every key
\* of the input kept, and its length is the total shown.
C3_FirstOccurrenceWins ==
    pc = "done" =>
        LET u == unique_courses_df
        IN  /\ IsSubseq(u, f_df)
            /\ Len(u) = Cardinality(FirstPositions)
            /\ \A k \in 1..Len(u) :
                  \E i \in FirstPositions :
                      /\ u[k] = f_df[i]
                      /\ Cardinality({j \in FirstPositions : j < i}) = k - 1
            /\ \A k, l \in 1..Len(u) :
                  k # l => <<u[k].year, u[k].term, u[k].code>> # <<u[l].year, u[l].term, u[l].code>>
            /\ \A i \in 1..Len(f_df) :
                  \E k \in 1..Len(u) :
                      <<u[k].year, u[k].term, u[k].code>> = <<f_df[i].year, f_df[i].term, f_df[i].code>>
            /\ total_unique = Len(u)

\* a frame whose later duplicate differs from the row kept, between two kept rows
C3_Witness ==
    /\ pc = "done" /\ Len(f_df) = 3 /\ Len(unique_courses_df) = 2
    /\ <<f_df[1].year, f_df[1].term, f_df[1].code>> = <<f_df[3].year, f_df[3].term, f_df[3].code>>
    /\ f_df[1] # f_df[3]
    /\ unique_courses_df = <<f_df[1], f_df[2]>>
=============================================================================
